---- MODULE Spec2Model ----
(***************************************************************************)
(* Session and signaling bridge of the XAI voice WebRTC server.            *)
(*                                                                         *)
(*   packages/server/src/index.ts     REST session routes, the signaling   *)
(*                                    socket handlers, the peerConnections *)
(*                                    table                                *)
(*   packages/server/src/rtc-peer.ts  RTCPeerManager (the Peer Bridge)     *)
(*   packages/server/src/function-callings.ts                              *)
(*                                    handleFunctionCallArguments          *)
(*                                                                         *)
(* session-manager.ts and xai-client.ts are not part of the sources at     *)
(* hand; SessionManager and XAIClient are modelled from the written        *)
(* specification (sections 4.1 and 4.2).                                   *)
(***************************************************************************)
EXTENDS Integers, Sequences, FiniteSets, TLC

\* ---------------------------------------------------------------- bounds
MaxSessions == 1
MaxConns == 2
MaxMsgs == 3
MaxCloseCalls == 2
MaxRateIndex == 2000
MaxArg == 5
RandomSteps == 12
MaxClock == 3
MaxQueued == 4
MaxChunk == 4
MaxBlock == 3
MaxCalls == 4

\* ------------------------------------------------------- program constants
CodeSessionNotFound == 1002
CodeInternalError == 1011
DefaultSampleRate == 24000
DefaultChunkSize == 2400

Conns == 1..MaxConns
Null == 0
\* A session id no POST /sessions ever returned.
UnknownId == 0

VARIABLES
  sessions,         \* SessionManager's table: id -> Session
  nextId,           \* ids generated so far + 1
  peerConnections,  \* index.ts peerConnections: session id -> bridge
  conn,             \* per signaling connection: the closure of upgradeWebSocket
  bridge,           \* per RTCPeerManager: its fields and the handles it owns
  observed,         \* what the handlers gave back: the last REST response, the
                    \* ids deleted, the last call made on a bridge
  toolCall,         \* the last run of handleFunctionCallArguments
  capture,          \* the browser's AudioCaptureProcessor and what it posted
  now,              \* the server's clock, as new Date() reads it
  playback          \* the browser's playback queue and the sources it started

vars ==
  <<sessions, nextId, peerConnections, conn, bridge, observed, toolCall, capture, now, playback>>

\* ------------------------------------------------------------ session table
SUPPORTED_SAMPLE_RATES == <<8000, 16000, 21050, 24000, 32000, 44100, 48000>>

Abs(x) == IF x < 0 THEN -x ELSE x

RECURSIVE ReduceClosest_LastWins(_, _, _)
\* The reduce with <= for <: of two equally close rates the later one wins.
ReduceClosest_LastWins(prev, i, req) ==
  IF i > Len(SUPPORTED_SAMPLE_RATES) THEN prev
  ELSE LET curr == SUPPORTED_SAMPLE_RATES[i]
       IN ReduceClosest_LastWins(
            IF Abs(curr - req) <= Abs(prev - req) THEN curr ELSE prev, i + 1, req)

RECURSIVE ReduceClosest(_, _, _)
\* Array.prototype.reduce without an initial value: prev starts as element 1.
ReduceClosest(prev, i, req) ==
  IF i > Len(SUPPORTED_SAMPLE_RATES) THEN prev
  ELSE LET curr == SUPPORTED_SAMPLE_RATES[i]
       IN ReduceClosest(IF Abs(curr - req) < Abs(prev - req) THEN curr ELSE prev,
                        i + 1, req)

\* POST /sessions taking the requested rate as it comes.
NegotiateSampleRate_AsRequested(bodyRate) ==
  IF bodyRate = 0 THEN DefaultSampleRate ELSE bodyRate

\* body.sample_rate || 24000, then the supported-set check of POST /sessions.
NegotiateSampleRate(bodyRate) ==
  LET requested == IF bodyRate = 0 THEN DefaultSampleRate ELSE bodyRate
  IN IF \E i \in 1..Len(SUPPORTED_SAMPLE_RATES) : SUPPORTED_SAMPLE_RATES[i] = requested
     THEN requested
     ELSE ReduceClosest(SUPPORTED_SAMPLE_RATES[1], 2, requested)

\* A session that no stats poll has reached yet.
NoStats == [connectionState |-> "none", lastUpdated |-> 0]

NewSession(rate) ==
  [status |-> "created", sample_rate |-> rate, webrtc_stats |-> NoStats]

\* SessionManager.updateSessionStatus: a no-op for an unknown id.
UpdateSessionStatus(tbl, id, st) ==
  IF id \in DOMAIN tbl THEN [tbl EXCEPT ![id].status = st] ELSE tbl

\* SessionManager.updateSessionStats: a no-op for an unknown id.
UpdateSessionStats(tbl, id, stats) ==
  IF id \in DOMAIN tbl THEN [tbl EXCEPT ![id].webrtc_stats = stats] ELSE tbl

\* A delete that leaves the entry in place.
DeleteFrom_Kept(tbl, id) == tbl

\* SessionManager.deleteSession
DeleteFrom(tbl, id) == [k \in (DOMAIN tbl) \ {id} |-> tbl[k]]

\* A table that keeps only the entry set last.
MapSet_Alone(tbl, k, v) == [x \in {k} |-> v]

\* Map.set
MapSet(tbl, k, v) == [x \in (DOMAIN tbl) \cup {k} |-> IF x = k THEN v ELSE tbl[x]]

EmptyMap == [x \in {} |-> Null]

\* --------------------------------------------------------------- the bridge
NoBridge ==
  [built |-> FALSE, sessionId |-> UnknownId,
   dataChannel |-> "none", dcLocal |-> "none", dcRemote |-> "none",
   pcState |-> "new", xai |-> "idle", connectCalls |-> 0,
   closeCalls |-> 0, closeLog |-> <<>>, lastUpdated |-> 0,
   dcArrived |-> <<>>, xaiSendCalls |-> <<>>, upRecv |-> <<>>, dcSent |-> <<>>,
   upstreamLog |-> <<>>]

\* new RTCPeerManager(config): the XAIClient, the peer connection, and the
\* locally created data channel with its handlers.
NewBridge(sid) ==
  [NoBridge EXCEPT !.built = TRUE, !.sessionId = sid, !.lastUpdated = now,
                   !.dataChannel = "local", !.dcLocal = "connecting"]

\* initializeXAI up to its await: the four handlers are registered and
\* xaiClient.connect() is called.
InitializeXAI(br) ==
  [br EXCEPT !.xai = "connecting", !.connectCalls = @ + 1]

\* The state of this.dataChannel.readyState === "open".
DataChannelOpen(br) ==
  \/ br.dataChannel = "local" /\ br.dcLocal = "open"
  \/ br.dataChannel = "remote" /\ br.dcRemote = "open"

\* pc.connectionState, "new" until the connection has connected; the
\* bridge's stats follow it (onconnectionstatechange).
ConnectionState(br) ==
  IF br.pcState \in {"connected", "closed"} THEN br.pcState ELSE "new"

\* getStats(): this.stats.lastUpdated = new Date().toISOString()
Refreshed(br) == [br EXCEPT !.lastUpdated = now]

\* getStats handing out the snapshot without a new timestamp.
GetStats_Unrefreshed(br) ==
  [connectionState |-> ConnectionState(br), lastUpdated |-> br.lastUpdated]

\* RTCPeerManager.getStats(): the refreshed snapshot.
GetStats(br) ==
  [connectionState |-> ConnectionState(br),
   lastUpdated |-> Refreshed(br).lastUpdated]

\* pc.close() closes the connection and every channel it carries.
PcClosed(br) ==
  [br EXCEPT !.pcState = "closed",
             !.dcLocal = IF @ = "none" THEN @ ELSE "closed",
             !.dcRemote = IF @ = "none" THEN @ ELSE "closed",
             !.closeLog = Append(@, "pc")]

\* this.dataChannel.close()
DcClosed(br) ==
  IF br.dataChannel = "local"
  THEN [br EXCEPT !.dcLocal = "closed", !.closeLog = Append(@, "dc")]
  ELSE [br EXCEPT !.dcRemote = "closed", !.closeLog = Append(@, "dc")]

\* XAIClient.close(): closes the socket; idempotent.
XaiClosed(br) ==
  [br EXCEPT !.xai = "closed", !.closeLog = Append(@, "xai")]

\* close() without the upstream client's close.
Close_UpstreamLeftOpen(br, fail) ==
  LET b0 == [br EXCEPT !.closeCalls = @ + 1]
  IN PcClosed(IF b0.dataChannel # "none" THEN DcClosed(b0) ELSE b0)

\* RTCPeerManager.close().  fail names the handle whose close throws
\* ("none": every close returns): the method has no try/catch, so the
\* exception leaves it at that statement.
Close(br, fail) ==
  LET b0 == [br EXCEPT !.closeCalls = @ + 1]
      b1 == IF b0.dataChannel # "none" THEN DcClosed(b0) ELSE b0
  IN IF fail = "dc" /\ b0.dataChannel # "none"
     THEN [b0 EXCEPT !.closeLog = Append(@, "dc")]
     ELSE IF fail = "pc"
     THEN [b1 EXCEPT !.closeLog = Append(@, "pc")]
     ELSE XaiClosed(PcClosed(b1))

CloseThrows(br, fail) ==
  \/ fail = "dc" /\ br.dataChannel # "none"
  \/ fail = "pc"

\* ------------------------------------------------- signaling connections
NoConn ==
  [sessionId |-> UnknownId, ws |-> "pending", peerManager |-> Null,
   statsInterval |-> FALSE, onOpen |-> "notrun", xaiInit |-> "none",
   sent |-> <<>>, wsCloseCalls |-> <<>>]

\* ws.close(code, reason) called by the server.
WsClose(cn, code) ==
  [cn EXCEPT !.ws = IF @ = "open" THEN "closing" ELSE @,
             !.wsCloseCalls = Append(@, code)]

\* ws.send(JSON.stringify(message)): written only while the socket is open.
WsSend(cn, type) ==
  IF cn.ws = "open" THEN [cn EXCEPT !.sent = Append(@, type)] ELSE cn

\* The tail of onOpen after `await xaiInitPromise`: the promise carries a
\* catch handler, so the await never throws, and setInterval is reached
\* whether the upstream connect succeeded or failed.
StartStats(cn) == [cn EXCEPT !.statsInterval = TRUE, !.onOpen = "done"]

\* ------------------------------------------------ what the handlers give back
StatusOk == 200
StatusNotFound == 404

\* The JSON body of POST /sessions, with or without a sample_rate.
NoBody == [given |-> FALSE, sample_rate |-> 0]

NoResponse ==
  [route |-> "none", sid |-> UnknownId, status |-> 0, body |-> NoBody,
   sample_rate |-> 0]

\* A call of a bridge method by a handler: the bridge, whether its offer was
\* set and whether it was closed when called, and how the call ended.
NoCall ==
  [bridge |-> Null, method |-> "none", offered |-> FALSE, closed |-> FALSE,
   outcome |-> "none"]

NothingObserved == [response |-> NoResponse, deleted |-> {}, call |-> NoCall]

\* A function-call message from upstream, before any arrived.
NoArguments == [json |-> "missing", min |-> [type |-> "undefined", num |-> 0],
                max |-> [type |-> "undefined", num |-> 0]]

NoToolCall ==
  [message |-> [name |-> "none", call_id |-> 0, arguments |-> NoArguments],
   sent |-> <<>>, caught |-> FALSE]

\* The capture processor before the worklet node constructs it.  fed is the
\* concatenation of the blocks handed to process() while capturing, calls
\* the number of process() calls so far.
NoCapture ==
  [built |-> FALSE, audioBuffer |-> <<>>, totalSamples |-> 0,
   chunkSizeSamples |-> 0, isCapturing |-> FALSE, posted |-> <<>>,
   fed |-> <<>>, calls |-> 0]

\* useAudioStream's playback refs before any audio arrived.  sources are
\* the buffer sources created so far, each with the chunk it plays and
\* whether it is playing, stopped with its ended event still to come, or
\* ended; current is the index of currentPlaybackSourceRef.  queued counts
\* the playAudio calls, cut is queued as of the last stopPlayback, and
\* interrupted holds from a stopPlayback to the next playAudio.
NoPlayback ==
  [playbackQueue |-> <<>>, isPlaying |-> FALSE, current |-> Null,
   sources |-> <<>>, queued |-> 0, cut |-> 0, interrupted |-> FALSE]

Init ==
  /\ sessions = EmptyMap
  /\ nextId = 1
  /\ peerConnections = EmptyMap
  /\ conn = [c \in Conns |-> NoConn]
  /\ bridge = [c \in Conns |-> NoBridge]
  /\ observed = NothingObserved
  /\ toolCall = NoToolCall
  /\ capture = NoCapture
  /\ now = 1
  /\ playback = NoPlayback

\* POST /sessions
CreateSession(bodyRate) ==
  /\ nextId <= MaxSessions
  /\ sessions' = MapSet(sessions, nextId, NewSession(NegotiateSampleRate(bodyRate)))
  /\ nextId' = nextId + 1
  /\ UNCHANGED <<peerConnections, conn, bridge>>
  /\ UNCHANGED <<toolCall, capture, now, playback>>

\* DELETE /sessions/:sessionId, for a registered id.
DeleteSession(sid, fail) ==
  /\ sid \in DOMAIN sessions
  /\ sid \in DOMAIN peerConnections => bridge[peerConnections[sid]].closeCalls < MaxCloseCalls
  /\ IF sid \in DOMAIN peerConnections
     THEN LET b == peerConnections[sid]
          IN /\ bridge' = [bridge EXCEPT ![b] = Close(@, fail)]
             /\ IF CloseThrows(bridge[b], fail)
                THEN UNCHANGED <<peerConnections, sessions>>
                ELSE /\ peerConnections' = DeleteFrom(peerConnections, sid)
                     /\ sessions' = DeleteFrom(sessions, sid)
     ELSE /\ sessions' = DeleteFrom(sessions, sid)
          /\ UNCHANGED <<peerConnections, bridge>>
  /\ UNCHANGED <<nextId, conn>>
  /\ UNCHANGED <<toolCall, capture, now, playback>>

\* onOpen without the registry lookup.
SessionFound_Unchecked(sid) == TRUE

\* onOpen: const session = sessionManager.getSession(sessionId); if (!session) ...
SessionFound(sid) == sid \in DOMAIN sessions

\* signaling onOpen, up to its first await.  Connections are numbered in
\* the order they open.
SigOnOpen(c, sid) ==
  /\ conn[c].ws = "pending"
  /\ IF c = 1 THEN TRUE ELSE conn[c - 1].ws # "pending"
  /\ IF ~SessionFound(sid)
     THEN /\ conn' = [conn EXCEPT ![c] =
                 WsClose([@ EXCEPT !.sessionId = sid, !.ws = "open",
                                   !.onOpen = "rejected"],
                         CodeSessionNotFound)]
          /\ UNCHANGED <<sessions, peerConnections, bridge>>
     ELSE /\ sessions' = UpdateSessionStatus(sessions, sid, "active")
          /\ bridge' = [bridge EXCEPT ![c] = InitializeXAI(NewBridge(sid))]
          /\ peerConnections' = MapSet(peerConnections, sid, c)
          /\ conn' = [conn EXCEPT ![c] =
                 [@ EXCEPT !.sessionId = sid, !.ws = "open", !.peerManager = c,
                           !.onOpen = "awaitOffer", !.xaiInit = "pending"]]
  /\ UNCHANGED nextId
  /\ UNCHANGED <<observed, toolCall, capture, now, playback>>

\* onOpen going on to the upstream initialization without sending the offer.
OfferResolved_Unsent(c) ==
  /\ conn[c].onOpen = "awaitOffer"
  /\ bridge' = [bridge EXCEPT ![c].pcState =
                  IF @ = "new" THEN "have-local-offer" ELSE @]
  /\ conn' = [conn EXCEPT ![c] =
                IF @.xaiInit \in {"ok", "failed"}
                THEN StartStats(@)
                ELSE [@ EXCEPT !.onOpen = "awaitXai"]]
  /\ UNCHANGED <<sessions, nextId, peerConnections>>
  /\ UNCHANGED <<observed, toolCall, capture, now, playback>>

\* onOpen awaiting xaiInitPromise before it creates and sends the offer.
OfferResolved_AfterUpstream(c) ==
  /\ conn[c].onOpen = "awaitOffer"
  /\ conn[c].xaiInit \in {"ok", "failed"}
  /\ bridge' = [bridge EXCEPT ![c].pcState =
                  IF @ = "new" THEN "have-local-offer" ELSE @]
  /\ conn' = [conn EXCEPT ![c] = StartStats(WsSend(@, "offer"))]
  /\ UNCHANGED <<sessions, nextId, peerConnections>>
  /\ UNCHANGED <<observed, toolCall, capture, now, playback>>

\* peerManager.createOffer() resolves: the offer is sent, then onOpen awaits
\* xaiInitPromise.
OfferResolved(c) ==
  /\ conn[c].onOpen = "awaitOffer"
  /\ bridge' = [bridge EXCEPT ![c].pcState =
                  IF @ = "new" THEN "have-local-offer" ELSE @]
  /\ LET sentOffer == WsSend(conn[c], "offer")
     IN conn' = [conn EXCEPT ![c] =
                   IF sentOffer.xaiInit \in {"ok", "failed"}
                   THEN StartStats(sentOffer)
                   ELSE [sentOffer EXCEPT !.onOpen = "awaitXai"]]
  /\ UNCHANGED <<sessions, nextId, peerConnections>>
  /\ UNCHANGED <<observed, toolCall, capture, now, playback>>

\* peerManager.createOffer() rejects.
OfferRejected(c) ==
  /\ conn[c].onOpen = "awaitOffer"
  /\ conn' = [conn EXCEPT ![c] =
                [WsClose(@, CodeInternalError) EXCEPT !.onOpen = "offerFailed"]]
  /\ UNCHANGED <<sessions, nextId, peerConnections, bridge>>
  /\ UNCHANGED <<observed, toolCall, capture, now, playback>>

\* The upstream socket opens; XAIClient sends the session configuration.
XaiSocketOpen(b) ==
  /\ bridge[b].xai = "connecting"
  /\ bridge' = [bridge EXCEPT ![b].xai = "open"]
  /\ UNCHANGED <<sessions, nextId, peerConnections, conn>>
  /\ UNCHANGED <<observed, toolCall, capture, now, playback>>

\* The ready handler registered by initializeXAI.
ReadyHandler(br) ==
  IF DataChannelOpen(br)
  THEN [br EXCEPT !.dcSent = Append(@, [type |-> "xai.ready", seq |-> 0])]
  ELSE br

\* The chain with a catch handler that only logs.
XaiInitSettled_NoWsClose(cn, outcome) ==
  LET c1 == [cn EXCEPT !.xaiInit = outcome]
  IN IF c1.onOpen = "awaitXai" THEN StartStats(c1) ELSE c1

\* The .then/.catch chain on initializeXAI() settles, and with it a pending
\* `await xaiInitPromise` of onOpen.
XaiInitSettled(cn, outcome) ==
  LET c1 == [cn EXCEPT !.xaiInit = outcome]
      c2 == IF outcome = "failed" THEN WsClose(c1, CodeInternalError) ELSE c1
  IN IF c2.onOpen = "awaitXai" THEN StartStats(c2) ELSE c2

\* The configuration acknowledgment arrives: the ready handler fires and
\* connect() resolves.  From "connecting" the step stands for the socket
\* opening and the acknowledgment arriving with nothing in between.
XaiReady(b) ==
  /\ bridge[b].xai \in {"connecting", "open"}
  /\ bridge' = [bridge EXCEPT ![b] = ReadyHandler([@ EXCEPT !.xai = "ready"])]
  /\ conn' = [conn EXCEPT ![b] = XaiInitSettled(@, "ok")]
  /\ UNCHANGED <<sessions, nextId, peerConnections>>
  /\ UNCHANGED <<observed, toolCall, capture, now, playback>>

\* connect() rejects: the socket fails before the acknowledgment, or the
\* client was closed under the pending connect.
XaiConnectFailed(b) ==
  /\ conn[b].xaiInit = "pending"
  /\ bridge[b].xai \in {"connecting", "open", "closed"}
  /\ bridge' = [bridge EXCEPT ![b].xai = IF @ = "closed" THEN @ ELSE "failed"]
  /\ conn' = [conn EXCEPT ![b] = XaiInitSettled(@, "failed")]
  /\ UNCHANGED <<sessions, nextId, peerConnections>>
  /\ UNCHANGED <<observed, toolCall, capture, now, playback>>

SignalingTypes == {"answer", "ice-candidate"}

\* peerManager.handleAnswer: setRemoteDescription throws unless a local
\* offer is set.
AnswerAccepted(br) == br.pcState = "have-local-offer"

\* onMessage sending ready before it awaits handleAnswer.
SigOnMessage_ReadyFirst(c, type) ==
  /\ conn[c].ws \in {"open", "closing"}
  /\ IF conn[c].peerManager = Null
     THEN UNCHANGED <<conn, bridge>>
     ELSE LET b == conn[c].peerManager
          IN IF type = "answer"
             THEN /\ bridge' = [bridge EXCEPT ![b].pcState =
                                  IF AnswerAccepted(bridge[b]) THEN "negotiating" ELSE @]
                  /\ conn' = [conn EXCEPT ![c] = WsSend(@, "ready")]
             ELSE UNCHANGED <<conn, bridge>>
  /\ UNCHANGED <<sessions, nextId, peerConnections>>
  /\ UNCHANGED <<toolCall, capture, now, playback>>

\* onMessage whose catch closes the socket on a frame it cannot parse.
SigOnMessage_CloseOnError(c, type) ==
  /\ conn[c].ws \in {"open", "closing"}
  /\ IF conn[c].peerManager = Null
     THEN UNCHANGED <<conn, bridge>>
     ELSE LET b == conn[c].peerManager
          IN IF type = "answer" /\ AnswerAccepted(bridge[b])
             THEN /\ bridge' = [bridge EXCEPT ![b].pcState = "negotiating"]
                  /\ conn' = [conn EXCEPT ![c] = WsSend(@, "ready")]
             ELSE IF type = "malformed"
             THEN /\ conn' = [conn EXCEPT ![c] = WsClose(@, CodeInternalError)]
                  /\ UNCHANGED bridge
             ELSE UNCHANGED <<conn, bridge>>
  /\ UNCHANGED <<sessions, nextId, peerConnections>>
  /\ UNCHANGED <<toolCall, capture, now, playback>>

\* signaling onMessage
SigOnMessage(c, type) ==
  /\ conn[c].ws \in {"open", "closing"}
  /\ IF conn[c].peerManager = Null
     THEN UNCHANGED <<conn, bridge>>
     ELSE LET b == conn[c].peerManager
          IN IF type = "answer" /\ AnswerAccepted(bridge[b])
             THEN /\ bridge' = [bridge EXCEPT ![b].pcState = "negotiating"]
                  /\ conn' = [conn EXCEPT ![c] = WsSend(@, "ready")]
             ELSE UNCHANGED <<conn, bridge>>
  /\ UNCHANGED <<sessions, nextId, peerConnections>>
  /\ UNCHANGED <<toolCall, capture, now, playback>>

\* pc.onconnectionstatechange reaching "connected".
PcConnected(b) ==
  /\ bridge[b].pcState = "negotiating"
  /\ bridge' = [bridge EXCEPT ![b].pcState = "connected"]
  /\ UNCHANGED <<sessions, nextId, peerConnections, conn>>
  /\ UNCHANGED <<observed, toolCall, capture, now, playback>>

\* dataChannel.onopen of the locally created channel.
DcLocalOpen(b) ==
  /\ bridge[b].pcState = "connected"
  /\ bridge[b].dcLocal = "connecting"
  /\ bridge' = [bridge EXCEPT ![b].dcLocal = "open"]
  /\ UNCHANGED <<sessions, nextId, peerConnections, conn>>
  /\ UNCHANGED <<observed, toolCall, capture, now, playback>>

\* pc.ondatachannel: the channel the client created replaces
\* this.dataChannel; the local channel keeps its handlers.
OnDataChannel(b) ==
  /\ bridge[b].pcState = "connected"
  /\ bridge[b].dcRemote = "none"
  /\ bridge' = [bridge EXCEPT ![b].dcRemote = "open", ![b].dataChannel = "remote"]
  /\ UNCHANGED <<sessions, nextId, peerConnections, conn>>
  /\ UNCHANGED <<observed, toolCall, capture, now, playback>>

\* onClose leaving the interval running.
OnCloseClearInterval_Skipped(cn) == cn

\* onClose: if (statsInterval) { clearInterval(statsInterval); statsInterval = null }
OnCloseClearInterval(cn) == [cn EXCEPT !.statsInterval = FALSE]

\* signaling onClose
SigOnClose(c, fail) ==
  /\ conn[c].ws \in {"open", "closing"}
  /\ LET cleared == OnCloseClearInterval([conn[c] EXCEPT !.ws = "closed"])
         b == conn[c].peerManager
     IN IF b = Null
        THEN /\ conn' = [conn EXCEPT ![c] = cleared]
             /\ sessions' = UpdateSessionStatus(sessions, conn[c].sessionId, "closed")
             /\ UNCHANGED <<peerConnections, bridge>>
        ELSE /\ bridge' = [bridge EXCEPT ![b] = Close(@, fail)]
             /\ IF CloseThrows(bridge[b], fail)
                THEN /\ conn' = [conn EXCEPT ![c] = cleared]
                     /\ UNCHANGED <<peerConnections, sessions>>
                ELSE /\ conn' = [conn EXCEPT ![c] = [cleared EXCEPT !.peerManager = Null]]
                     /\ peerConnections' = DeleteFrom(peerConnections, conn[c].sessionId)
                     /\ sessions' = UpdateSessionStatus(sessions, conn[c].sessionId, "closed")
  /\ UNCHANGED nextId
  /\ UNCHANGED <<observed, toolCall, capture, now, playback>>

\* ------------------------------------------- handlers with what they give back
Call(b, method, outcome) ==
  [bridge |-> b, method |-> method, offered |-> bridge[b].pcState # "new",
   closed |-> bridge[b].closeCalls > 0, outcome |-> outcome]

\* signaling onMessage with the bridge method it calls: handleAnswer, whose
\* rejection the catch of onMessage logs, or handleIceCandidate.
\* A frame onMessage skips without calling the bridge: JSON.parse threw, the
\* type is none of the switch's cases, or an ice-candidate has no candidate.
Skipped(b, frame) == [NoCall EXCEPT !.bridge = b, !.outcome = frame]

OnMessage(c, type) ==
  /\ SigOnMessage(c, type)
  /\ IF conn[c].peerManager = Null
     THEN UNCHANGED observed
     ELSE LET b == conn[c].peerManager
          IN observed' = [observed EXCEPT !.call =
               IF type = "answer"
               THEN Call(b, "handleAnswer",
                         IF AnswerAccepted(bridge[b]) THEN "resolved" ELSE "rejected")
               ELSE IF type = "ice-candidate"
               THEN Call(b, "handleIceCandidate", "resolved")
               ELSE IF type = "ice-candidate-rejected"
               THEN Call(b, "handleIceCandidate", "caught")
               ELSE Skipped(b, type)]

\* The interval callback storing the stats under its session id whether or
\* not the registry still has the id.
StatsPoll_StoredAnyway(c, fails) ==
  /\ conn[c].statsInterval
  /\ conn[c].peerManager # Null
  /\ LET b == conn[c].peerManager
     IN /\ observed' = [observed EXCEPT !.call =
             Call(b, "getStats", IF fails THEN "rejected" ELSE "resolved")]
        /\ IF fails
           THEN UNCHANGED <<sessions, bridge>>
           ELSE /\ bridge' = [bridge EXCEPT ![b] = Refreshed(@)]
                /\ sessions' =
                     MapSet(sessions, conn[c].sessionId,
                            [(IF conn[c].sessionId \in DOMAIN sessions
                              THEN sessions[conn[c].sessionId]
                              ELSE NewSession(DefaultSampleRate))
                               EXCEPT !.webrtc_stats = GetStats(bridge[b])])
  /\ UNCHANGED <<nextId, peerConnections, conn, toolCall, capture, now, playback>>

\* The interval callback set by onOpen: if (peerManager) { getStats();
\* updateSessionStats }.  fails: the poll throws, and the callback's catch
\* drops the exception.
StatsPoll(c, fails) ==
  /\ conn[c].statsInterval
  /\ conn[c].peerManager # Null
  /\ LET b == conn[c].peerManager
     IN /\ observed' = [observed EXCEPT !.call =
             Call(b, "getStats", IF fails THEN "rejected" ELSE "resolved")]
        /\ IF fails
           THEN UNCHANGED <<sessions, bridge>>
           ELSE /\ bridge' = [bridge EXCEPT ![b] = Refreshed(@)]
                /\ sessions' = UpdateSessionStats(sessions, conn[c].sessionId,
                                                  GetStats(bridge[b]))
  /\ UNCHANGED <<nextId, peerConnections, conn, toolCall, capture, now, playback>>

Respond(route, sid, status) ==
  [NoResponse EXCEPT !.route = route, !.sid = sid, !.status = status]

\* body.sample_rate: undefined is falsy, as 0 is.
BodySampleRate(body) == IF body.given THEN body.sample_rate ELSE 0

\* POST /sessions with its response.
PostSessions(body) ==
  /\ CreateSession(BodySampleRate(body))
  /\ observed' = [observed EXCEPT !.response =
                    [Respond("create", nextId, StatusOk) EXCEPT
                       !.body = body,
                       !.sample_rate = sessions'[nextId].sample_rate]]

\* DELETE /sessions/:sessionId with its response.
DeleteSessions(sid) ==
  IF SessionFound(sid)
  THEN /\ DeleteSession(sid, "none")
       /\ observed' = [observed EXCEPT
                         !.response = Respond("delete", sid, StatusOk),
                         !.deleted = @ \cup {sid}]
  ELSE /\ observed' = [observed EXCEPT
                         !.response = Respond("delete", sid, StatusNotFound)]
       /\ UNCHANGED <<sessions, nextId, peerConnections, conn, bridge, toolCall, capture, now, playback>>

\* GET /sessions/:sessionId/stats
GetSessionStats(sid) ==
  /\ IF ~SessionFound(sid)
     THEN /\ observed' = [observed EXCEPT
                            !.response = Respond("stats", sid, StatusNotFound)]
          /\ UNCHANGED <<sessions, bridge>>
     ELSE IF sid \notin DOMAIN peerConnections
     THEN /\ observed' = [observed EXCEPT
                            !.response = Respond("stats", sid, StatusNotFound)]
          /\ UNCHANGED <<sessions, bridge>>
     ELSE LET b == peerConnections[sid]
          IN /\ observed' = [observed EXCEPT
                               !.response = Respond("stats", sid, StatusOk),
                               !.call = Call(b, "getStats", "resolved")]
             /\ bridge' = [bridge EXCEPT ![b] = Refreshed(@)]
             /\ sessions' = UpdateSessionStats(sessions, sid, GetStats(bridge[b]))
  /\ UNCHANGED <<nextId, peerConnections, conn, toolCall, capture, now, playback>>

\* ------------------------------------------------------------- the relay
DcTypes == {"input_audio_buffer.append", "response.create", "malformed"}
UpstreamTypes == {"response.output_audio.delta", "response.done"}

\* onmessage forwarding the audio branch only.
DataChannelOnMessage_AudioOnly(br, m) ==
  IF m.type = "input_audio_buffer.append"
  THEN [br EXCEPT !.xaiSendCalls =
          Append(@, [type |-> m.type, seq |-> m.seq, xai |-> br.xai,
                     current |-> m.ch = br.dataChannel])]
  ELSE br

\* dataChannel.onmessage: JSON.parse, then xaiClient.sendMessage(message) on
\* both branches.  The call is recorded with the upstream client's state at
\* the time of the call, and with whether the frame came in on the channel
\* this.dataChannel refers to at that time.
DataChannelOnMessage(br, m) ==
  IF m.type = "malformed"
  THEN br
  ELSE [br EXCEPT !.xaiSendCalls =
          Append(@, [type |-> m.type, seq |-> m.seq, xai |-> br.xai,
                     current |-> m.ch = br.dataChannel])]

\* The handler putting the newest message ahead of the earlier ones.
XaiOnMessage_NewestFirst(br, m) ==
  IF DataChannelOpen(br)
  THEN [br EXCEPT !.dcSent = <<[type |-> m.type, seq |-> m.seq]>> \o @]
  ELSE br

\* The handler without the readyState check.
XaiOnMessage_NoOpenCheck(br, m) ==
  [br EXCEPT !.dcSent = Append(@, [type |-> m.type, seq |-> m.seq])]

\* The message handler initializeXAI registers on the upstream client.
XaiOnMessage(br, m) ==
  IF DataChannelOpen(br)
  THEN [br EXCEPT !.dcSent = Append(@, [type |-> m.type, seq |-> m.seq])]
  ELSE br

\* The error handler initializeXAI registers: it logs.
XaiOnError(br) == [br EXCEPT !.upstreamLog = Append(@, "error")]

\* A close handler that tears the bridge down.
XaiOnClose_ClosesBridge(br) ==
  Close([br EXCEPT !.upstreamLog = Append(@, "close")], "none")

\* The close handler initializeXAI registers: it logs.
XaiOnClose(br) == [br EXCEPT !.upstreamLog = Append(@, "close")]

\* The upstream socket reports an error after connect() has resolved.
XaiSocketError(b) ==
  /\ bridge[b].xai = "ready"
  /\ Len(bridge[b].upstreamLog) < MaxMsgs
  /\ bridge' = [bridge EXCEPT ![b] = XaiOnError(@)]
  /\ UNCHANGED <<sessions, nextId, peerConnections, conn>>
  /\ UNCHANGED <<observed, toolCall, capture, now, playback>>

\* The upstream socket closes after connect() has resolved.
XaiSocketClosed(b) ==
  /\ bridge[b].xai = "ready"
  /\ Len(bridge[b].upstreamLog) < MaxMsgs
  /\ bridge' = [bridge EXCEPT ![b] = XaiOnClose([@ EXCEPT !.xai = "closed"])]
  /\ UNCHANGED <<sessions, nextId, peerConnections, conn>>
  /\ UNCHANGED <<observed, toolCall, capture, now, playback>>

\* A frame from the browser arrives on an open channel of the bridge.
DcOnMessage(b, ch, type) ==
  /\ \/ ch = "local" /\ bridge[b].dcLocal = "open"
     \/ ch = "remote" /\ bridge[b].dcRemote = "open"
  /\ Len(bridge[b].dcArrived) < MaxMsgs
  /\ LET m == [type |-> type, seq |-> Len(bridge[b].dcArrived) + 1]
         frame == [type |-> m.type, seq |-> m.seq, ch |-> ch]
     IN bridge' = [bridge EXCEPT ![b] =
                     DataChannelOnMessage([@ EXCEPT !.dcArrived = Append(@, m)], frame)]
  /\ UNCHANGED <<sessions, nextId, peerConnections, conn>>
  /\ UNCHANGED <<observed, toolCall, capture, now, playback>>

\* A message from the upstream socket reaches the registered handler.
UpstreamMessage(b, type) ==
  /\ bridge[b].xai \in {"open", "ready"}
  /\ Len(bridge[b].upRecv) < MaxMsgs
  /\ LET m == [type |-> type, seq |-> Len(bridge[b].upRecv) + 1]
         got == [type |-> type, seq |-> m.seq, dcOpen |-> DataChannelOpen(bridge[b])]
     IN bridge' = [bridge EXCEPT ![b] =
                     XaiOnMessage([@ EXCEPT !.upRecv = Append(@, got)], m)]
  /\ UNCHANGED <<sessions, nextId, peerConnections, conn>>
  /\ UNCHANGED <<observed, toolCall, capture, now, playback>>

\* ------------------------------------------------ the function-call dispatcher
\* A value of the parsed arguments object: a number, a string, or undefined
\* for a field the object does not have.
NumberValue(n) == [type |-> "number", num |-> n]
StringValue == [type |-> "string", num |-> 0]
Undefined == [type |-> "undefined", num |-> 0]

\* typeof v !== "number"
TypeofNumber(v) == v.type = "number"

\* JSON.parse(message.arguments) throws on undefined and on malformed text.
JsonParseThrows(arguments) == arguments.json \in {"missing", "invalid"}

\* const { min, max } = <parsed>: destructuring null throws; a scalar has
\* neither field; an object gives what it holds.
DestructureThrows(arguments) == arguments.json = "null"

Field(arguments, f) ==
  IF arguments.json = "object" THEN arguments[f] ELSE Undefined

\* The check reading typeof min only.
ArgumentsInvalid_MinOnly(min, max) == ~TypeofNumber(min)

\* if (typeof min !== "number" || typeof max !== "number") throw
ArgumentsInvalid(min, max) == ~TypeofNumber(min) \/ ~TypeofNumber(max)

\* The draw without the final + min.
RandomNumber_NoOffset(min, max, u) == (u * (max - min + 1)) \div RandomSteps

\* Math.floor(Math.random() * (max - min + 1)) + min, with Math.random()
\* giving u / RandomSteps in [0, 1).
RandomNumber(min, max, u) == ((u * (max - min + 1)) \div RandomSteps) + min

DigitChars == <<"0", "1", "2", "3", "4", "5", "6", "7", "8", "9">>

RECURSIVE Digits(_)
Digits(n) ==
  IF n < 10 THEN <<DigitChars[n + 1]>>
  ELSE Digits(n \div 10) \o <<DigitChars[(n % 10) + 1]>>

\* Number.prototype.toString of an integer: the characters of its decimal
\* form.
NumberToString(n) == IF n < 0 THEN <<"-">> \o Digits(0 - n) ELSE Digits(n)

\* JSON.stringify({ type: "text", text }): the text between the fixed parts.
OutputOpen == "{\"type\":\"text\",\"text\":\""
OutputClose == "\"}"
StringifyOutput(text) == <<OutputOpen>> \o text \o <<OutputClose>>

NoItem == [type |-> "none", call_id |-> 0, output |-> <<>>]

\* The two sends in the opposite order.
Emit_TriggerFirst(call_id, output) ==
  << [type |-> "response.create", item |-> NoItem],
     [type |-> "conversation.item.create",
      item |-> [type |-> "function_call_output", call_id |-> call_id,
                output |-> output]] >>

\* The two sendMessage calls that end handleFunctionCallArguments.
Emit(call_id, output) ==
  << [type |-> "conversation.item.create",
      item |-> [type |-> "function_call_output", call_id |-> call_id,
                output |-> output]],
     [type |-> "response.create", item |-> NoItem] >>

\* The try block: whether it throws, which the catch logs before returning.
TryThrows(message) ==
  IF message.name # "generate_random_number" THEN TRUE
  ELSE IF JsonParseThrows(message.arguments) THEN TRUE
  ELSE IF DestructureThrows(message.arguments) THEN TRUE
  ELSE ArgumentsInvalid(Field(message.arguments, "min"),
                        Field(message.arguments, "max"))

\* handleFunctionCallArguments(message, sendMessage): what it sent, and
\* whether its catch ran.
HandleFunctionCallArguments(message, u) ==
  IF TryThrows(message)
  THEN [message |-> message, sent |-> <<>>, caught |-> TRUE]
  ELSE LET randomNumber == RandomNumber(message.arguments.min.num,
                                        message.arguments.max.num, u)
           output == StringifyOutput(NumberToString(randomNumber))
       IN [message |-> message, sent |-> Emit(message.call_id, output),
           caught |-> FALSE]

\* A function-call message from upstream reaches the dispatcher.  The
\* dispatcher keeps nothing between calls: a behaviour follows one call.
FunctionCall(message, u) ==
  /\ toolCall = NoToolCall
  /\ toolCall' = HandleFunctionCallArguments(message, u)
  /\ UNCHANGED <<sessions, nextId, peerConnections, conn, bridge, observed, capture, now, playback>>

\* ------------------------------------------------------- specifications
BodyRates == {0}

IssuedIds == 1..(nextId - 1)

\* Sessions and signaling connections: the lifecycle of the bridges.
Next ==
  \/ \E r \in BodyRates : CreateSession(r) /\ UNCHANGED observed
  \/ \E sid \in 1..MaxSessions : DeleteSession(sid, "none") /\ UNCHANGED observed
  \/ \E c \in Conns : \E sid \in IssuedIds \cup {UnknownId} : SigOnOpen(c, sid)
  \/ \E c \in Conns : OfferResolved(c)
  \/ \E c \in Conns : OfferRejected(c)
  \/ \E c \in Conns : XaiReady(c)
  \/ \E c \in Conns : XaiConnectFailed(c)
  \/ \E c \in Conns : \E t \in SignalingTypes : SigOnMessage(c, t) /\ UNCHANGED observed
  \/ \E c \in Conns : SigOnClose(c, "none")

Spec == Init /\ [][Next]_vars

\* The relay specifications follow one signaling connection.
RelayConns == {1}

\* Its handshake, common to the two relay specifications.
Handshake ==
  \/ \E r \in BodyRates : CreateSession(r) /\ UNCHANGED observed
  \/ \E c \in RelayConns : \E sid \in IssuedIds : SigOnOpen(c, sid)
  \/ \E c \in RelayConns : OfferResolved(c)
  \/ \E c \in RelayConns : XaiSocketOpen(c)
  \/ \E c \in RelayConns : XaiReady(c)
  \/ \E c \in RelayConns : XaiConnectFailed(c)
  \/ \E c \in RelayConns : SigOnMessage(c, "answer") /\ UNCHANGED observed
  \/ \E c \in RelayConns : PcConnected(c)
  \/ \E c \in RelayConns : DcLocalOpen(c)
  \/ \E c \in RelayConns : OnDataChannel(c)
  \/ \E c \in RelayConns : SigOnClose(c, "none")

\* Browser -> upstream traffic over the handshake.
NextUp ==
  \/ Handshake
  \/ \E c \in RelayConns : \E ch \in {"local", "remote"} : \E t \in DcTypes :
       DcOnMessage(c, ch, t)

SpecUp == Init /\ [][NextUp]_vars

\* Upstream -> browser traffic over the handshake.
NextDown ==
  \/ Handshake
  \/ \E c \in RelayConns : \E t \in UpstreamTypes : UpstreamMessage(c, t)

SpecDown == Init /\ [][NextDown]_vars

\* Upstream -> browser traffic with the upstream socket failing or closing
\* in mid-session.
NextUpstream ==
  \/ NextDown
  \/ \E c \in RelayConns : XaiSocketError(c)
  \/ \E c \in RelayConns : XaiSocketClosed(c)

SpecUpstream == Init /\ [][NextUpstream]_vars

\* The lifecycle when a handle's close() may throw.
CloseFailures == {"none", "dc", "pc"}

NextCloseFail ==
  \/ \E r \in BodyRates : CreateSession(r) /\ UNCHANGED observed
  \/ \E sid \in 1..MaxSessions : \E f \in CloseFailures : DeleteSession(sid, f) /\ UNCHANGED observed
  \/ \E c \in Conns : \E sid \in IssuedIds : SigOnOpen(c, sid)
  \/ \E c \in Conns : OfferResolved(c)
  \/ \E c \in Conns : SigOnMessage(c, "answer") /\ UNCHANGED observed
  \/ \E c \in Conns : PcConnected(c)
  \/ \E c \in Conns : DcLocalOpen(c)
  \/ \E c \in Conns : OnDataChannel(c)
  \/ \E c \in Conns : \E f \in CloseFailures : SigOnClose(c, f)

SpecCloseFail == Init /\ [][NextCloseFail]_vars

\* The close event of a socket the server closed is delivered.
Fairness == \A c \in Conns : WF_vars(conn[c].ws = "closing" /\ SigOnClose(c, "none"))

\* Registered sessions, their connections, the two ways the upstream
\* initialization settles, and teardown by close or delete.
NextTeardown ==
  \/ \E r \in BodyRates : CreateSession(r) /\ UNCHANGED observed
  \/ \E sid \in 1..MaxSessions : DeleteSession(sid, "none") /\ UNCHANGED observed
  \/ \E c \in Conns : \E sid \in IssuedIds : SigOnOpen(c, sid)
  \/ \E c \in Conns : OfferResolved(c)
  \/ \E c \in Conns : XaiReady(c)
  \/ \E c \in Conns : XaiConnectFailed(c)
  \/ \E c \in Conns : SigOnClose(c, "none")

FairSpec == Init /\ [][NextTeardown]_vars /\ Fairness

\* Two signaling connections and the REST routes, with what the handlers
\* give back.
ServedConns == {1, 2}

NextServed ==
  \/ \E r \in BodyRates : CreateSession(r) /\ UNCHANGED observed
  \/ \E sid \in 1..MaxSessions \cup {UnknownId} : DeleteSessions(sid)
  \/ \E sid \in 1..MaxSessions \cup {UnknownId} : GetSessionStats(sid)
  \/ \E c \in ServedConns : \E sid \in IssuedIds : SigOnOpen(c, sid)
  \/ \E c \in ServedConns : OfferResolved(c)
  \/ \E c \in ServedConns : OfferRejected(c)
  \/ \E c \in ServedConns : XaiReady(c)
  \/ \E c \in ServedConns : \E t \in SignalingTypes : OnMessage(c, t)
  \/ \E c \in ServedConns : StatsPoll(c, FALSE)
  \/ \E c \in ServedConns : SigOnClose(c, "none")

SpecServed == Init /\ [][NextServed]_vars

\* One signaling connection with every frame the browser may send on it, on
\* the socket and on the data channel, both ways the upstream connect and
\* the offer end, and stats polls that succeed or throw.
SignalingFrames ==
  SignalingTypes \cup
    {"ice-candidate-rejected", "ice-candidate-empty", "unknown", "malformed"}

NextSignal ==
  \/ \E r \in BodyRates : CreateSession(r) /\ UNCHANGED observed
  \/ \E c \in RelayConns : \E sid \in IssuedIds \cup {UnknownId} : SigOnOpen(c, sid)
  \/ \E c \in RelayConns : OfferResolved(c)
  \/ \E c \in RelayConns : OfferRejected(c)
  \/ \E c \in RelayConns : XaiReady(c)
  \/ \E c \in RelayConns : XaiConnectFailed(c)
  \/ \E c \in RelayConns : \E t \in SignalingFrames : OnMessage(c, t)
  \/ \E c \in RelayConns : \E f \in BOOLEAN : StatsPoll(c, f)
  \/ \E c \in RelayConns : PcConnected(c)
  \/ \E c \in RelayConns : DcLocalOpen(c)
  \/ \E c \in RelayConns : \E t \in DcTypes : DcOnMessage(c, "local", t)
  \/ \E c \in RelayConns : SigOnClose(c, "none")

SpecSignal == Init /\ [][NextSignal]_vars

\* Two sessions side by side, each created by POST /sessions, with the
\* signaling connections, stats polls and deletes of both.
PairIds == {1, 2}

PairRates == <<0, 16000>>

InitPair ==
  /\ sessions = [id \in PairIds |-> NewSession(NegotiateSampleRate(PairRates[id]))]
  /\ nextId = 3
  /\ peerConnections = EmptyMap
  /\ conn = [c \in Conns |-> NoConn]
  /\ bridge = [c \in Conns |-> NoBridge]
  /\ observed = NothingObserved
  /\ toolCall = NoToolCall
  /\ capture = NoCapture
  /\ now = 1
  /\ playback = NoPlayback

NextPair ==
  \/ \E sid \in PairIds : DeleteSessions(sid)
  \/ \E c \in ServedConns : \E sid \in PairIds : SigOnOpen(c, sid)
  \/ \E c \in ServedConns : OfferResolved(c)
  \/ \E c \in ServedConns : XaiReady(c)
  \/ \E c \in ServedConns : XaiConnectFailed(c)
  \/ \E c \in ServedConns : \E t \in SignalingTypes : OnMessage(c, t)
  \/ \E c \in ServedConns : StatsPoll(c, FALSE)
  \/ \E c \in ServedConns : SigOnClose(c, "none")

SpecPair == InitPair /\ [][NextPair]_vars

\* Time passes on the server.
Tick ==
  /\ now < MaxClock
  /\ now' = now + 1
  /\ UNCHANGED <<sessions, nextId, peerConnections, conn, bridge, observed,
                 toolCall, capture, playback>>

\* Stats over time: the connections of a session, their periodic polls and
\* the get-stats route, with the clock moving in between.
NextStats ==
  \/ \E r \in BodyRates : CreateSession(r) /\ UNCHANGED observed
  \/ \E sid \in 1..MaxSessions : GetSessionStats(sid)
  \/ \E c \in ServedConns : \E sid \in IssuedIds : SigOnOpen(c, sid)
  \/ \E c \in ServedConns : OfferResolved(c)
  \/ \E c \in ServedConns : XaiReady(c)
  \/ \E c \in ServedConns : StatsPoll(c, FALSE)
  \/ \E c \in ServedConns : SigOnClose(c, "none")
  \/ Tick

SpecStats == Init /\ [][NextStats]_vars

\* Session creation over requested rates: every multiple of 25 Hz from 0 to
\* 50 kHz, which holds every supported rate and every midpoint between two
\* neighbouring supported rates; a few negative rates; and no sample_rate.
RequestedRates ==
  {25 * k : k \in 0..MaxRateIndex} \cup {0 - 25 * k : k \in 1..4}

Bodies == {NoBody} \cup {[given |-> TRUE, sample_rate |-> r] : r \in RequestedRates}

NextCreate ==
  \/ \E body \in Bodies : PostSessions(body)
  \/ \E sid \in 1..MaxSessions : DeleteSessions(sid)

SpecCreate == Init /\ [][NextCreate]_vars

\* Function-call messages: a registered and an unregistered tool name, two
\* call ids, and arguments that are missing, malformed, null, a scalar, or
\* an object whose min and max are each a number, a string or absent.
ToolNames == {"generate_random_number", "get_weather"}
CallIds == {1, 2}
ArgumentValues ==
  {NumberValue(n) : n \in (0 - MaxArg)..MaxArg} \cup {StringValue, Undefined}
ArgumentStrings ==
  {[NoArguments EXCEPT !.json = j] : j \in {"missing", "invalid", "null", "scalar"}}
  \cup {[json |-> "object", min |-> lo, max |-> hi] :
           lo \in ArgumentValues, hi \in ArgumentValues}
FunctionCallMessages ==
  {[name |-> n, call_id |-> id, arguments |-> a] :
     n \in ToolNames, id \in CallIds, a \in ArgumentStrings}

NextTool ==
  \E message \in FunctionCallMessages : \E u \in 0..(RandomSteps - 1) :
    FunctionCall(message, u)

SpecTool == Init /\ [][NextTool]_vars

\* ------------------------------------------------- the capture processor
\* constructor: options?.processorOptions?.chunkSizeSamples || 2400
NewProcessor(chunkSizeSamples) ==
  [NoCapture EXCEPT !.built = TRUE, !.isCapturing = TRUE,
                    !.chunkSizeSamples = IF chunkSizeSamples = 0
                                         THEN DefaultChunkSize
                                         ELSE chunkSizeSamples]

\* The part-of-buffer branch leaving the whole block at the head.
TakePart_HeadKept(buffer, needed) ==
  [taken |-> SubSeq(buffer, 1, needed), rest |-> buffer]

\* buffer.subarray(0, needed) goes to the chunk, buffer.subarray(needed)
\* stays at the head of audioBuffer.
TakePart(buffer, needed) ==
  [taken |-> SubSeq(buffer, 1, needed),
   rest |-> SubSeq(buffer, needed + 1, Len(buffer))]

\* The inner loop of process(): while (offset < chunkSizeSamples &&
\* audioBuffer.length > 0), with offset the length of what the chunk holds.
RECURSIVE FillChunk(_, _, _, _)
FillChunk(audioBuffer, chunk, totalSamples, chunkSizeSamples) ==
  IF Len(chunk) < chunkSizeSamples /\ audioBuffer # <<>>
  THEN LET buffer == Head(audioBuffer)
           needed == chunkSizeSamples - Len(chunk)
       IN IF Len(buffer) <= needed
          THEN FillChunk(Tail(audioBuffer), chunk \o buffer,
                         totalSamples - Len(buffer), chunkSizeSamples)
          ELSE LET part == TakePart(buffer, needed)
               IN FillChunk(<<part.rest>> \o Tail(audioBuffer),
                            chunk \o part.taken,
                            totalSamples - needed, chunkSizeSamples)
  ELSE [audioBuffer |-> audioBuffer, chunk |-> chunk,
        totalSamples |-> totalSamples]

\* new Float32Array(chunkSizeSamples) is zero-filled: what the loop did not
\* set stays 0.
Silence == 0

ZeroFilled(chunk, chunkSizeSamples) ==
  chunk \o [i \in 1..(chunkSizeSamples - Len(chunk)) |-> Silence]

\* The outer loop of process(): while (totalSamples >= chunkSizeSamples),
\* one chunk posted per round.
RECURSIVE SendChunks(_)
SendChunks(cap) ==
  IF cap.totalSamples >= cap.chunkSizeSamples
  THEN LET filled == FillChunk(cap.audioBuffer, <<>>, cap.totalSamples,
                               cap.chunkSizeSamples)
       IN SendChunks([cap EXCEPT
            !.audioBuffer = filled.audioBuffer,
            !.totalSamples = filled.totalSamples,
            !.posted = Append(@, ZeroFilled(filled.chunk, cap.chunkSizeSamples))])
  ELSE cap

\* AudioCaptureProcessor.process(inputs).  connected: inputs[0][0] exists.
Process(cap, connected, inputChannel) ==
  IF ~connected \/ ~cap.isCapturing
  THEN cap
  ELSE SendChunks([cap EXCEPT !.audioBuffer = Append(@, inputChannel),
                              !.totalSamples = @ + Len(inputChannel)])

\* The block the audio thread hands over next: samples are numbered in the
\* order they are captured.
NextBlock(n) == [i \in 1..n |-> Len(capture.fed) + i]

\* new AudioWorkletNode(..., { processorOptions: { chunkSizeSamples } })
CaptureConstruct(chunkSizeSamples) ==
  /\ ~capture.built
  /\ capture' = NewProcessor(chunkSizeSamples)
  /\ UNCHANGED <<sessions, nextId, peerConnections, conn, bridge, observed, toolCall, now, playback>>

\* One render quantum reaches process().
CaptureProcess(connected, n) ==
  /\ capture.built
  /\ capture.calls < MaxCalls
  /\ capture' = [Process(capture, connected, NextBlock(n)) EXCEPT
                   !.fed = IF connected /\ capture.isCapturing
                           THEN @ \o NextBlock(n) ELSE @,
                   !.calls = @ + 1]
  /\ UNCHANGED <<sessions, nextId, peerConnections, conn, bridge, observed, toolCall, now, playback>>

\* port.onmessage with { type: "stop" }
CaptureStop ==
  /\ capture.built
  /\ capture.isCapturing
  /\ capture' = [capture EXCEPT !.isCapturing = FALSE]
  /\ UNCHANGED <<sessions, nextId, peerConnections, conn, bridge, observed, toolCall, now, playback>>

\* The processor over every chunk size up to MaxChunk and the default, and
\* up to MaxCalls blocks of every length up to MaxBlock.
NextCapture ==
  \/ \E size \in 0..MaxChunk : CaptureConstruct(size)
  \/ \E connected \in BOOLEAN : \E n \in 0..MaxBlock : CaptureProcess(connected, n)
  \/ CaptureStop

SpecCapture == Init /\ [][NextCapture]_vars

\* ------------------------------------------------------ the playback queue
\* playNextChunk: an empty queue ends playback; otherwise the head of the
\* queue gets a new source, which becomes the current one and is started.
PlayNextChunk(pb) ==
  IF pb.playbackQueue = <<>>
  THEN [pb EXCEPT !.isPlaying = FALSE, !.current = Null]
  ELSE [pb EXCEPT !.playbackQueue = Tail(@),
                  !.sources = Append(@, [chunk |-> Head(pb.playbackQueue),
                                         state |-> "playing"]),
                  !.current = Len(pb.sources) + 1]

\* stopPlayback leaving the queue as it is.
StopSources_QueueKept(pb) ==
  [pb EXCEPT !.sources = IF pb.current # Null
                         THEN [@ EXCEPT ![pb.current].state =
                                 IF @ = "playing" THEN "stopped" ELSE @]
                         ELSE @,
             !.current = Null,
             !.isPlaying = FALSE]

\* stopPlayback: the current source is stopped and forgotten, the queue
\* cleared.  stop() leaves the source's onended in place.
StopSources(pb) ==
  [pb EXCEPT !.sources = IF pb.current # Null
                         THEN [@ EXCEPT ![pb.current].state =
                                 IF @ = "playing" THEN "stopped" ELSE @]
                         ELSE @,
             !.current = Null,
             !.playbackQueue = <<>>,
             !.isPlaying = FALSE]

\* playAudio(base64Audio): chunks are numbered in the order they arrive.
PlayAudio ==
  /\ playback.queued < MaxQueued
  /\ LET chunk == playback.queued + 1
         pushed == [playback EXCEPT !.playbackQueue = Append(@, chunk),
                                    !.queued = chunk,
                                    !.interrupted = FALSE]
     IN playback' = IF ~pushed.isPlaying
                    THEN PlayNextChunk([pushed EXCEPT !.isPlaying = TRUE])
                    ELSE pushed
  /\ UNCHANGED <<sessions, nextId, peerConnections, conn, bridge, observed,
                 toolCall, capture, now>>

\* stopPlayback(), called when input_audio_buffer.speech_started arrives.
StopPlayback ==
  /\ playback' = [StopSources(playback) EXCEPT !.cut = playback.queued,
                                               !.interrupted = TRUE]
  /\ UNCHANGED <<sessions, nextId, peerConnections, conn, bridge, observed,
                 toolCall, capture, now>>

\* source.onended of source s, after it played to its end or was stopped.
SourceEnded(s) ==
  /\ s \in 1..Len(playback.sources)
  /\ playback.sources[s].state \in {"playing", "stopped"}
  /\ playback' =
       PlayNextChunk([playback EXCEPT
                        !.sources[s].state = "ended",
                        !.current = IF @ = s THEN Null ELSE @])
  /\ UNCHANGED <<sessions, nextId, peerConnections, conn, bridge, observed,
                 toolCall, capture, now>>

\* Audio arriving, interruptions and ended events in any order.
NextPlayback ==
  \/ PlayAudio
  \/ StopPlayback
  \/ \E s \in 1..MaxQueued : SourceEnded(s)

SpecPlayback == Init /\ [][NextPlayback]_vars

\* ---------------------------------------------------------------- claims
RECURSIVE Count(_, _)
Count(seq, x) ==
  IF seq = <<>> THEN 0
  ELSE (IF Head(seq) = x THEN 1 ELSE 0) + Count(Tail(seq), x)

Range(seq) == {seq[i] : i \in 1..Len(seq)}

\* A bridge is live from its construction to the first close() on it.
Live(b) == bridge[b].built /\ bridge[b].closeCalls = 0

InTable(b) ==
  /\ bridge[b].sessionId \in DOMAIN peerConnections
  /\ peerConnections[bridge[b].sessionId] = b

\* C1: the bridge never calls the upstream client's sendMessage with a
\* browser message while the upstream client is still connecting or
\* configuring, i.e. before its readiness has fired.
C1_NoSendBeforeReady ==
  \A b \in Conns : \A i \in 1..Len(bridge[b].xaiSendCalls) :
    bridge[b].xaiSendCalls[i].xai \notin {"connecting", "open"}

\* C2: every session id has at most one live bridge at any time.
C2_AtMostOneLiveBridge ==
  \A sid \in 1..MaxSessions :
    Cardinality({b \in Conns : Live(b) /\ bridge[b].sessionId = sid}) <= 1

\* C3: over a bridge's lifetime the data channel, the peer connection and
\* the upstream client each receive at most one close request.
C3_CloseRequestsAtMostOnce ==
  \A b \in Conns : \A h \in {"dc", "pc", "xai"} : Count(bridge[b].closeLog, h) <= 1

\* C4: every close() of a bridge requests the close of the data channel,
\* then of the peer connection, then of the upstream client, whether or not
\* one of these closes fails.
C4_CloseOrderedAndGuarded ==
  \A b \in Conns :
    /\ Len(bridge[b].closeLog) = 3 * bridge[b].closeCalls
    /\ \A i \in 1..Len(bridge[b].closeLog) :
         bridge[b].closeLog[i] = <<"dc", "pc", "xai">>[((i - 1) % 3) + 1]

\* C4, the part the code keeps: while no close throws, close() requests
\* data channel, peer connection, upstream client in that order.
C4_Witness ==
  \E b \in Conns : bridge[b].closeLog = <<"dc", "pc", "xai">>

\* C5: the step in which a connection that built a bridge runs onClose
\* leaves its stats task stopped, its bridge closed and out of the table,
\* and its session, if registered, closed.
C5_OnCloseTeardown ==
  [][\A c \in Conns :
       (conn[c].ws # "closed" /\ conn'[c].ws = "closed" /\ conn[c].peerManager # Null)
       => /\ ~conn'[c].statsInterval
          /\ bridge'[c].closeCalls > bridge[c].closeCalls
          /\ bridge'[c].pcState = "closed"
          /\ bridge'[c].xai = "closed"
          /\ bridge'[c].dcLocal = "closed"
          /\ ~InTable(c)'
          /\ conn[c].sessionId \in DOMAIN sessions' =>
               sessions'[conn[c].sessionId].status = "closed"]_vars

\* A connection whose stats task was running has been closed.
C5_Witness ==
  \E c \in Conns :
    /\ conn[c].ws = "closed" /\ bridge[c].built
    /\ conn[c].onOpen = "done" /\ ~conn[c].statsInterval
    /\ conn[c].sessionId \in DOMAIN sessions
    /\ sessions[conn[c].sessionId].status = "closed"

\* C6: opening a signaling connection for an unregistered id closes it
\* with 1002, builds no bridge, sends nothing and changes neither table;
\* every message on it afterwards changes nothing.
C6_UnknownSessionRejected ==
  [][\A c \in Conns :
       /\ (conn[c].ws = "pending" /\ conn'[c].ws # "pending"
             /\ conn'[c].sessionId \notin DOMAIN sessions)
          => /\ conn'[c].ws = "closing"
             /\ conn'[c].wsCloseCalls = <<CodeSessionNotFound>>
             /\ conn'[c].peerManager = Null
             /\ conn'[c].sent = <<>>
             /\ UNCHANGED <<sessions, peerConnections, bridge>>
       /\ (conn[c].onOpen = "rejected" /\ \E t \in SignalingTypes : SigOnMessage(c, t))
          => UNCHANGED vars]_vars

C6_Witness ==
  \E c \in Conns :
    /\ conn[c].onOpen = "rejected" /\ conn[c].ws = "closing"
    /\ sessions # EmptyMap

\* The well-formed frames among those that arrived, in arrival order.
WellFormed(m) == m.type # "malformed"

Forwarded(br) ==
  [i \in 1..Len(br.xaiSendCalls) |->
     [type |-> br.xaiSendCalls[i].type, seq |-> br.xaiSendCalls[i].seq]]

\* C7: the sendMessage calls of a bridge are exactly the well-formed frames
\* that arrived on its data channels, in arrival order, each once and
\* unchanged, whatever their type.
C7_ClientToUpstreamOrder ==
  \A b \in Conns : Forwarded(bridge[b]) = SelectSeq(bridge[b].dcArrived, WellFormed)

\* An audio frame, a malformed frame and a control frame arrived in that
\* order; the audio and the control frame were forwarded.
C7_Witness ==
  \E b \in Conns :
    /\ Len(bridge[b].dcArrived) >= 3
    /\ bridge[b].dcArrived[1].type = "input_audio_buffer.append"
    /\ bridge[b].dcArrived[2].type = "malformed"
    /\ bridge[b].dcArrived[3].type = "response.create"
    /\ Len(bridge[b].xaiSendCalls) = 2

\* What the bridge sent on the data channel as relay, without the xai.ready
\* notice it generates itself.
Relayed(br) == SelectSeq(br.dcSent, LAMBDA m : m.type # "xai.ready")

IsUpstreamMessage(br, m) ==
  /\ m.seq \in 1..Len(br.upRecv)
  /\ br.upRecv[m.seq].type = m.type

\* C8 as stated: everything the bridge sends on the data channel is a
\* message received from the upstream socket, in the order received.
C8_AllSentFromUpstream ==
  \A b \in Conns :
    /\ \A i \in 1..Len(bridge[b].dcSent) : IsUpstreamMessage(bridge[b], bridge[b].dcSent[i])
    /\ \A i, j \in 1..Len(bridge[b].dcSent) :
         i < j => bridge[b].dcSent[i].seq < bridge[b].dcSent[j].seq

\* C8, amended: apart from the xai.ready notice, what the bridge sends on
\* the data channel is a subsequence of the messages received from the
\* upstream socket: same relative order, none twice.
C8_RelayedIsSubsequence ==
  \A b \in Conns :
    LET r == Relayed(bridge[b])
    IN /\ \A i \in 1..Len(r) : IsUpstreamMessage(bridge[b], r[i])
       /\ \A i, j \in 1..Len(r) : i < j => r[i].seq < r[j].seq

\* Three upstream messages were relayed, around an xai.ready notice.
C8_Witness ==
  \E b \in Conns :
    /\ Len(bridge[b].upRecv) >= 3
    /\ Len(Relayed(bridge[b])) = 3
    /\ Len(bridge[b].dcSent) = 4

\* C9: an upstream message that arrived while this.dataChannel was not
\* open is never sent on the data channel, and one that arrived while it
\* was open is sent.
C9_DroppedNeverReplayed ==
  \A b \in Conns : \A i \in 1..Len(bridge[b].upRecv) :
    bridge[b].upRecv[i].dcOpen
      <=> (\E k \in 1..Len(bridge[b].dcSent) :
             bridge[b].dcSent[k].type # "xai.ready" /\ bridge[b].dcSent[k].seq = i)

\* A message was dropped before the channel opened and a later one relayed.
C9_Witness ==
  \E b \in Conns :
    /\ Len(bridge[b].upRecv) >= 2
    /\ ~bridge[b].upRecv[1].dcOpen
    /\ bridge[b].upRecv[2].dcOpen
    /\ DataChannelOpen(bridge[b])

\* C10: once the upstream connect of a connection has failed, the server
\* has called ws.close(1011) on it and the socket is closing or closed,
\* connect() was called once, and eventually the bridge is closed and out
\* of the table.
C10_ConnectFailureTeardown ==
  /\ [](\A c \in Conns :
          conn[c].xaiInit = "failed"
          => /\ CodeInternalError \in Range(conn[c].wsCloseCalls)
             /\ conn[c].ws \in {"closing", "closed"}
             /\ bridge[c].connectCalls = 1)
  /\ \A c \in Conns :
       (conn[c].xaiInit = "failed") ~> (bridge[c].closeCalls > 0 /\ ~InTable(c))

\* The connect failed while the signaling socket was open, and the close it
\* caused tore the bridge down.
C10_Witness ==
  \E c \in Conns :
    /\ conn[c].xaiInit = "failed" /\ bridge[c].xai = "closed"
    /\ conn[c].ws = "closed"
    /\ bridge[c].closeCalls = 1 /\ ~InTable(c)

\* onOpen has returned: at one of its two early returns, or past setInterval.
OnOpenFinished(c) == conn[c].onOpen \in {"rejected", "offerFailed", "done"}

\* C11: once a signaling connection has closed and its onOpen has finished,
\* no stats interval timer of that connection is scheduled, whatever the
\* order of the close event and the continuations of onOpen.
C11_NoStatsTimerAfterTeardown ==
  \A c \in Conns :
    (conn[c].ws = "closed" /\ OnOpenFinished(c)) => ~conn[c].statsInterval

\* C12: when onMessage handles an answer on a connection whose bridge has
\* no local offer set, handleAnswer rejects, the catch of onMessage reports
\* it, and the step sends no ready message and leaves the signaling
\* connection, the bridge and both tables as they were.
C12_AnswerBeforeOffer ==
  [][(/\ observed'.call # observed.call
      /\ observed'.call.method = "handleAnswer"
      /\ ~observed'.call.offered)
     => /\ observed'.call.outcome = "rejected"
        /\ UNCHANGED <<conn, bridge, peerConnections, sessions>>]_vars

\* An answer was handled and reported while createOffer was still pending
\* on an open connection with a live bridge.
C12_Witness ==
  \E c \in Conns :
    /\ observed.call = [bridge |-> c, method |-> "handleAnswer", offered |-> FALSE,
                        closed |-> FALSE, outcome |-> "rejected"]
    /\ conn[c].onOpen = "awaitOffer" /\ conn[c].ws = "open"
    /\ conn[c].sent = <<>> /\ Live(c)

\* C13: an id whose delete succeeded is absent from the session table, and
\* a stats request for it answers 404, whether or not a signaling
\* connection for the id is still open.
C13_DeletedStaysGone ==
  \A sid \in observed.deleted :
    /\ sid \notin DOMAIN sessions
    /\ (observed.response.route = "stats" /\ observed.response.sid = sid)
       => observed.response.status = StatusNotFound

\* A stats request for a deleted id was answered 404 while the signaling
\* connection opened for that id was still open.
C13_Witness ==
  /\ observed.response.route = "stats"
  /\ observed.response.sid \in observed.deleted
  /\ observed.response.status = StatusNotFound
  /\ \E c \in Conns : conn[c].sessionId = observed.response.sid /\ conn[c].ws = "open"

\* C14: a delete of an unregistered id answers 404 and changes neither
\* table nor any bridge; a delete of a registered id answers 200, closes the
\* bridge the table holds for it, if any, and removes the table entry and
\* the session.
C14_DeleteEffect ==
  [][(observed'.response # observed.response /\ observed'.response.route = "delete")
     => LET sid == observed'.response.sid
        IN IF sid \in DOMAIN sessions
           THEN /\ observed'.response.status = StatusOk
                /\ sid \notin DOMAIN sessions'
                /\ sid \notin DOMAIN peerConnections'
                /\ sid \in DOMAIN peerConnections =>
                     LET b == peerConnections[sid]
                     IN /\ bridge'[b].closeCalls = bridge[b].closeCalls + 1
                        /\ bridge'[b].pcState = "closed"
                        /\ bridge'[b].xai = "closed"
                        /\ bridge'[b].dcLocal = "closed"
           ELSE /\ observed'.response.status = StatusNotFound
                /\ UNCHANGED <<sessions, peerConnections, bridge, conn>>]_vars

\* A delete answered 200 and closed the live bridge of a connection that
\* is still open.
C14_Witness ==
  /\ observed.response.route = "delete"
  /\ observed.response.status = StatusOk
  /\ \E b \in Conns :
       /\ bridge[b].sessionId = observed.response.sid
       /\ bridge[b].closeCalls = 1 /\ bridge[b].xai = "closed"
       /\ conn[b].ws = "open"
       /\ ~InTable(b)

\* C20: no handler calls handleAnswer, handleIceCandidate or getStats on a
\* bridge that has been closed.
C20_ClosedBridgeNeverAddressed == ~observed.call.closed

Supported(r) ==
  \E i \in 1..Len(SUPPORTED_SAMPLE_RATES) : SUPPORTED_SAMPLE_RATES[i] = r

\* C15: session creation returns the requested rate when it is a supported
\* one, and otherwise a supported rate at the least distance from the
\* request.
C15_ExactOrClosest ==
  (observed.response.route = "create" /\ observed.response.body.given)
  => LET req == observed.response.body.sample_rate
         got == observed.response.sample_rate
     IN IF Supported(req)
        THEN got = req
        ELSE /\ Supported(got)
             /\ \A i \in 1..Len(SUPPORTED_SAMPLE_RATES) :
                  Abs(got - req) <= Abs(SUPPORTED_SAMPLE_RATES[i] - req)

\* C15, a case the code keeps: 22000 gives 21050.
C15_Witness ==
  /\ observed.response.route = "create"
  /\ observed.response.body = [given |-> TRUE, sample_rate |-> 22000]
  /\ observed.response.sample_rate = 21050

\* C16: a requested rate halfway between two neighbouring supported rates
\* gives the lower of the two.
C16_TieTakesLower ==
  (observed.response.route = "create" /\ observed.response.body.given)
  => LET req == observed.response.body.sample_rate
     IN \A i \in 1..(Len(SUPPORTED_SAMPLE_RATES) - 1) :
          LET lo == SUPPORTED_SAMPLE_RATES[i]
              hi == SUPPORTED_SAMPLE_RATES[i + 1]
          IN (lo < req /\ req < hi /\ req - lo = hi - req)
             => observed.response.sample_rate = lo

\* 28000, halfway between 24000 and 32000, gave 24000.
C16_Witness ==
  /\ observed.response.route = "create"
  /\ observed.response.body = [given |-> TRUE, sample_rate |-> 28000]
  /\ observed.response.sample_rate = 24000

\* The text of a stringified output, and its reading as a decimal integer.
TextOf(output) == SubSeq(output, 2, Len(output) - 1)

DigitValue(ch) == CHOOSE d \in 0..9 : DigitChars[d + 1] = ch

IsDigit(ch) == \E d \in 0..9 : DigitChars[d + 1] = ch

IsIntegerText(t) ==
  LET body == IF t # <<>> /\ Head(t) = "-" THEN Tail(t) ELSE t
  IN body # <<>> /\ \A i \in 1..Len(body) : IsDigit(body[i])

RECURSIVE ParseDigits(_, _)
ParseDigits(t, acc) ==
  IF t = <<>> THEN acc ELSE ParseDigits(Tail(t), 10 * acc + DigitValue(Head(t)))

ParseInt(t) ==
  IF Head(t) = "-" THEN 0 - ParseDigits(Tail(t), 0) ELSE ParseDigits(t, 0)

\* The message is a generate_random_number call whose arguments parse to an
\* object with numeric min and max.
IsValidCall(m) ==
  /\ m.name = "generate_random_number"
  /\ m.arguments.json = "object"
  /\ m.arguments.min.type = "number"
  /\ m.arguments.max.type = "number"

\* C17: a generate_random_number call with integers min <= max emits an
\* output whose text is the decimal form of an integer r, min <= r <= max.
C17_RandomWithinRange ==
  LET m == toolCall.message
  IN (IsValidCall(m) /\ m.arguments.min.num <= m.arguments.max.num)
     => /\ toolCall.sent # <<>>
        /\ LET out == toolCall.sent[1].item.output
           IN /\ Len(out) >= 3
              /\ Head(out) = OutputOpen /\ out[Len(out)] = OutputClose
              /\ IsIntegerText(TextOf(out))
              /\ ParseInt(TextOf(out)) >= m.arguments.min.num
              /\ ParseInt(TextOf(out)) <= m.arguments.max.num

\* The upper end was drawn: min = -5, max = 5 gave "5".
C17_Witness ==
  /\ IsValidCall(toolCall.message)
  /\ toolCall.message.arguments.min.num = -5
  /\ toolCall.message.arguments.max.num = 5
  /\ toolCall.sent # <<>>
  /\ TextOf(toolCall.sent[1].item.output) = <<"5">>

\* C18: a call naming an unregistered tool, or whose arguments are missing
\* or do not parse, or whose min or max is not a number, makes the
\* dispatcher send nothing; its catch logs the error and it returns.
C18_InvalidCallSendsNothing ==
  ((toolCall.message.name # "none") /\ ~IsValidCall(toolCall.message))
  => (toolCall.sent = <<>> /\ toolCall.caught)

\* min = "a", max = 3 on the registered tool: nothing was sent.
C18_Witness ==
  /\ toolCall.message.name = "generate_random_number"
  /\ toolCall.message.arguments.json = "object"
  /\ toolCall.message.arguments.min = StringValue
  /\ toolCall.message.arguments.max = NumberValue(3)
  /\ toolCall.sent = <<>> /\ toolCall.caught

\* C19: a valid call makes the dispatcher send exactly two messages: a
\* conversation.item.create carrying a function_call_output item with the
\* call's call_id, then a response.create; no response.create is sent
\* first or alone.
C19_OutputThenTrigger ==
  /\ IsValidCall(toolCall.message)
     => /\ Len(toolCall.sent) = 2
        /\ toolCall.sent[1].type = "conversation.item.create"
        /\ toolCall.sent[1].item.type = "function_call_output"
        /\ toolCall.sent[1].item.call_id = toolCall.message.call_id
        /\ toolCall.sent[2].type = "response.create"
  /\ \A i \in 1..Len(toolCall.sent) :
       toolCall.sent[i].type = "response.create"
       => /\ i > 1
          /\ toolCall.sent[i - 1].item.type = "function_call_output"

\* A valid call with call id 2 was answered with both messages.
C19_Witness ==
  /\ IsValidCall(toolCall.message)
  /\ toolCall.message.call_id = 2
  /\ Len(toolCall.sent) = 2
  /\ toolCall.sent[1].item.call_id = 2
  /\ toolCall.sent[2].type = "response.create"

\* The synthetic notification the ready handler puts on the data channel.
XaiReadyMessage == [type |-> "xai.ready", seq |-> 0]

\* C21: a bridge whose data channel has opened and whose upstream client
\* has become ready has sent xai.ready on the data channel, whichever of
\* the two happened first, and no bridge sends xai.ready more than once.
\* The notification is sent from inside a handler or not at all, so a state
\* where both have happened and nothing was sent is one where the
\* notification never comes.
C21_ReadyNotified ==
  \A b \in Conns :
    /\ Count(bridge[b].dcSent, XaiReadyMessage) <= 1
    /\ (bridge[b].xai = "ready" /\ DataChannelOpen(bridge[b]))
         => XaiReadyMessage \in Range(bridge[b].dcSent)

\* C22: a signaling connection the server closed for a setup error (a
\* failed upstream connect or a failed createOffer, close code 1011) was
\* sent an error message before the close.
C22_ErrorMessageBeforeClose ==
  \A c \in Conns :
    CodeInternalError \in Range(conn[c].wsCloseCalls)
      => "error" \in Range(conn[c].sent)

\* C23 as stated: on every signaling connection the offer is sent at most
\* once and is the first message sent, and it has been sent exactly once
\* wherever the session existed and createOffer() resolved (onOpen went past
\* the offer step).
C23_OfferExactlyOnce ==
  \A c \in Conns :
    /\ Count(conn[c].sent, "offer") <= 1
    /\ conn[c].sent # <<>> => conn[c].sent[1] = "offer"
    /\ conn[c].onOpen \in {"awaitXai", "done"} => Count(conn[c].sent, "offer") = 1

\* C23, amended: on every signaling connection the offer is sent at most
\* once and is the first message sent, and the step in which createOffer()
\* resolves sends it, as the first message, whenever the socket is still
\* open at that moment.
C23_OfferOnceWhileOpen ==
  /\ [](\A c \in Conns :
          /\ Count(conn[c].sent, "offer") <= 1
          /\ conn[c].sent # <<>> => conn[c].sent[1] = "offer")
  /\ [][\A c \in Conns :
          (/\ conn[c].onOpen = "awaitOffer"
           /\ conn'[c].onOpen \in {"awaitXai", "done"}
           /\ conn[c].ws = "open")
          => conn'[c].sent = <<"offer">>]_vars

\* The offer was sent, and ready after it.
C23_Witness ==
  \E c \in Conns :
    /\ conn[c].onOpen \in {"awaitXai", "done"}
    /\ conn[c].sent = <<"offer", "ready">>

\* What belongs to session id: its registry entry, its entry in the
\* active-bridge table, and the bridges built for it.
SessionView(id) ==
  [entry |-> IF id \in DOMAIN sessions THEN <<sessions[id]>> ELSE <<>>,
   table |-> IF id \in DOMAIN peerConnections THEN peerConnections[id] ELSE Null,
   bridges |-> [b \in Conns |->
                  IF bridge[b].sessionId = id THEN bridge[b] ELSE NoBridge]]

\* C24: sessions are independent.  A step is an event of the session of the
\* signaling connection whose closure it changes, of the session a REST
\* response names, or of the session of the bridge it calls; such a step
\* belongs to one session and leaves the registry entry, the table entry
\* and the bridges of every other session unchanged.
C24_SessionsIndependent ==
  [][LET touched ==
           {conn'[c].sessionId : c \in {x \in Conns : conn'[x] # conn[x]}}
           \cup (IF observed'.response # observed.response
                 THEN {observed'.response.sid} ELSE {})
           \cup (IF observed'.call # observed.call
                 THEN {bridge[observed'.call.bridge].sessionId} ELSE {})
     IN /\ Cardinality(touched) <= 1
        /\ \A id \in PairIds :
             id \notin touched => SessionView(id)' = SessionView(id)]_vars

\* Session 1 was torn down by its connection's close while session 2 stays
\* active with its bridge registered, unclosed, and its stats polled.
C24_Witness ==
  /\ 1 \in DOMAIN sessions /\ sessions[1].status = "closed"
  /\ 1 \notin DOMAIN peerConnections
  /\ 2 \in DOMAIN sessions /\ sessions[2].status = "active"
  /\ sessions[2].webrtc_stats # NoStats
  /\ 2 \in DOMAIN peerConnections
  /\ Live(peerConnections[2])
  /\ \E b \in Conns : bridge[b].sessionId = 1 /\ bridge[b].closeCalls > 0

RECURSIVE Flatten(_)
Flatten(blocks) ==
  IF blocks = <<>> THEN <<>> ELSE Head(blocks) \o Flatten(Tail(blocks))

RECURSIVE SumLen(_)
SumLen(blocks) ==
  IF blocks = <<>> THEN 0 ELSE Len(Head(blocks)) + SumLen(Tail(blocks))

\* C25: after every process() call, each chunk the capture processor posted
\* has exactly chunkSizeSamples samples; the posted chunks, concatenated,
\* are a prefix of the concatenated input blocks, and together with what is
\* still buffered they are the whole input, in order, with no sample lost
\* or duplicated; fewer than chunkSizeSamples samples remain buffered; and
\* totalSamples is the sum of the buffered block lengths.
C25_ChunksArePrefix ==
  capture.built =>
    /\ \A i \in 1..Len(capture.posted) :
         Len(capture.posted[i]) = capture.chunkSizeSamples
    /\ Flatten(capture.posted)
         = SubSeq(capture.fed, 1, Len(Flatten(capture.posted)))
    /\ Flatten(capture.posted) \o Flatten(capture.audioBuffer) = capture.fed
    /\ capture.totalSamples < capture.chunkSizeSamples
    /\ capture.totalSamples = SumLen(capture.audioBuffer)

\* Blocks of 3 and 2 samples with chunks of 2: the second chunk joins the
\* rest of the first block with part of the second.
C25_Witness ==
  /\ capture.chunkSizeSamples = 2
  /\ capture.fed = <<1, 2, 3, 4, 5>>
  /\ capture.posted = <<<<1, 2>>, <<3, 4>>>>
  /\ capture.audioBuffer = << <<5>> >>
  /\ capture.totalSamples = 1

\* C26: in no state is the stats interval of a signaling connection running
\* while the offer has not been sent on that connection or its upstream
\* initialization is still pending.
C26_StatsAfterOfferAndUpstream ==
  \A c \in Conns :
    conn[c].statsInterval
      => /\ "offer" \in Range(conn[c].sent)
         /\ conn[c].xaiInit \in {"ok", "failed"}

\* C27: the stats interval is never started on a signaling connection whose
\* upstream connect() failed.
C27_NoStatsAfterConnectFailure ==
  \A c \in Conns : conn[c].xaiInit = "failed" => ~conn[c].statsInterval

\* C28: a bridge uses one data channel.  No frame that came in on a channel
\* this.dataChannel no longer refers to (the locally created channel, once
\* the channel the browser created was received) is forwarded upstream, and
\* after close() no channel of the bridge is left open.
C28_OneDataChannel ==
  \A b \in Conns :
    /\ \A i \in 1..Len(bridge[b].xaiSendCalls) : bridge[b].xaiSendCalls[i].current
    /\ bridge[b].closeCalls > 0
         => bridge[b].dcLocal # "open" /\ bridge[b].dcRemote # "open"

\* The frames onMessage gives up on, and the frame the data channel's
\* onmessage cannot parse.
SkippedFrames == {"malformed", "unknown", "ice-candidate-empty"}

\* The data-channel logs of every bridge set aside: what is left of the
\* bridges is their state.
BridgeStates == [b \in Conns |-> [bridge[b] EXCEPT !.dcArrived = <<>>]]

\* C29: a step that is a transient relay error (a malformed, unknown or
\* candidate-less frame on the signaling socket, a candidate the peer
\* connection rejects, a stats poll that throws, a malformed frame on the
\* data channel) changes nothing but the logs: every signaling connection
\* keeps its socket state, its bridge and its stats interval, nothing is
\* sent or forwarded, no bridge is closed, and the active-bridge table and
\* the sessions are as they were.
C29_TransientErrorsSkipped ==
  [][((/\ observed'.call # observed.call
       /\ \/ observed'.call.method = "none"
                /\ observed'.call.outcome \in SkippedFrames
          \/ observed'.call.method = "handleIceCandidate"
                /\ observed'.call.outcome = "caught"
          \/ observed'.call.method = "getStats"
                /\ observed'.call.outcome = "rejected")
      \/ \E b \in Conns :
           /\ Len(bridge'[b].dcArrived) = Len(bridge[b].dcArrived) + 1
           /\ bridge'[b].dcArrived[Len(bridge'[b].dcArrived)].type = "malformed")
     => /\ UNCHANGED <<conn, peerConnections, sessions>>
        /\ BridgeStates' = BridgeStates]_vars

\* A connection that is open with its interval running, its bridge unclosed
\* and registered and its session active, after a malformed frame on the
\* data channel and a malformed frame on the signaling socket.
C29_Witness ==
  \E c \in Conns :
    /\ conn[c].ws = "open" /\ conn[c].statsInterval
    /\ conn[c].peerManager = c /\ Live(c) /\ InTable(c)
    /\ sessions[conn[c].sessionId].status = "active"
    /\ \E i \in 1..Len(bridge[c].dcArrived) : bridge[c].dcArrived[i].type = "malformed"
    /\ observed.call = Skipped(c, "malformed")

\* The step is a successful handleAnswer on the bridge of connection c.
AnswerHandled(c) ==
  /\ conn[c].peerManager # Null
  /\ bridge[conn[c].peerManager].pcState = "have-local-offer"
  /\ bridge'[conn[c].peerManager].pcState = "negotiating"

ReadyCount(cn) == Count(cn.sent, "ready")

\* C30 as stated: on every signaling connection a step sends ready exactly
\* when it is a successful handleAnswer on that connection's bridge, and
\* then once.
C30_ReadyPerAnswer ==
  [][\A c \in Conns :
       ReadyCount(conn'[c]) =
         ReadyCount(conn[c]) + (IF AnswerHandled(c) THEN 1 ELSE 0)]_vars

\* C30, amended: a step sends ready on a signaling connection exactly when
\* it is a successful handleAnswer on that connection's bridge with the
\* socket still open, and then once; the call the handler made is that
\* handleAnswer, never handleIceCandidate and never a skipped frame, and a
\* connection without a bridge is sent no ready.
C30_ReadyPerAnswerWhileOpen ==
  [][\A c \in Conns :
       /\ ReadyCount(conn'[c]) =
            ReadyCount(conn[c])
              + (IF AnswerHandled(c) /\ conn[c].ws = "open" THEN 1 ELSE 0)
       /\ ReadyCount(conn'[c]) # ReadyCount(conn[c])
            => /\ conn[c].peerManager # Null
               /\ observed'.call.bridge = conn[c].peerManager
               /\ observed'.call.method = "handleAnswer"
               /\ observed'.call.outcome = "resolved"]_vars

\* The answer was handled on an open connection and ready was sent once.
C30_Witness ==
  \E c \in Conns :
    /\ ReadyCount(conn[c]) = 1
    /\ bridge[c].pcState = "negotiating"
    /\ observed.call.bridge = c
    /\ observed.call.method = "handleAnswer"
    /\ observed.call.outcome = "resolved"

\* C31: the handshake does not wait for upstream.  While onOpen awaits
\* createOffer() the upstream connect() has already been called, and with
\* the upstream initialization still pending the offer step can be taken;
\* with the offer set and the socket open an answer can be handled and ready
\* sent, upstream still pending.
C31_HandshakeNotBlocked ==
  \A c \in RelayConns :
    /\ conn[c].onOpen = "awaitOffer" => bridge[c].connectCalls = 1
    /\ (conn[c].onOpen = "awaitOffer" /\ conn[c].xaiInit = "pending")
         => ENABLED OfferResolved(c)
    /\ (/\ conn[c].xaiInit = "pending"
        /\ conn[c].ws = "open"
        /\ conn[c].peerManager = c
        /\ bridge[c].pcState = "have-local-offer")
         => ENABLED (/\ OnMessage(c, "answer")
                     /\ conn'[c].sent = Append(conn[c].sent, "ready"))

\* Offer and ready were sent and the answer handled while connect() is
\* still pending.
C31_Witness ==
  \E c \in RelayConns :
    /\ conn[c].sent = <<"offer", "ready">>
    /\ bridge[c].pcState = "negotiating"
    /\ conn[c].xaiInit = "pending"
    /\ bridge[c].xai = "connecting"

\* C32: over every sequence of periodic polls and get-stats requests, the
\* lastUpdated of a bridge's stats never decreases, and neither does the
\* lastUpdated of the stats stored in a registered session: no update puts
\* an older snapshot in place of the stored one.
C32_StatsNeverRolledBack ==
  [][/\ \A b \in Conns :
          (bridge[b].built /\ bridge'[b].built)
            => bridge'[b].lastUpdated >= bridge[b].lastUpdated
     /\ \A id \in DOMAIN sessions \cap DOMAIN sessions' :
          sessions'[id].webrtc_stats.lastUpdated
            >= sessions[id].webrtc_stats.lastUpdated]_vars

\* Two bridges built at different times for one session have both been
\* polled, the older one last; the session holds the newest timestamp.
C32_Witness ==
  /\ 1 \in DOMAIN sessions
  /\ bridge[1].sessionId = 1 /\ bridge[2].sessionId = 1
  /\ bridge[1].lastUpdated = MaxClock
  /\ bridge[2].lastUpdated = MaxClock - 1
  /\ sessions[1].webrtc_stats.lastUpdated = MaxClock
  /\ observed.call.bridge = 1 /\ observed.call.method = "getStats"

\* C33: a step in which the upstream socket reports an error or a close in
\* mid-session leaves every signaling connection, the active-bridge table
\* and the sessions as they were, and the bridge neither closed nor with
\* its peer connection or data channels changed.
C33_UpstreamLossOnlyReported ==
  [][\A b \in Conns :
       Len(bridge'[b].upstreamLog) > Len(bridge[b].upstreamLog)
         => /\ UNCHANGED <<conn, peerConnections, sessions>>
            /\ bridge'[b].closeCalls = bridge[b].closeCalls
            /\ bridge'[b].closeLog = bridge[b].closeLog
            /\ bridge'[b].pcState = bridge[b].pcState
            /\ bridge'[b].dataChannel = bridge[b].dataChannel
            /\ bridge'[b].dcLocal = bridge[b].dcLocal
            /\ bridge'[b].dcRemote = bridge[b].dcRemote]_vars

\* The upstream socket of a connected bridge reported an error and closed;
\* the signaling connection is open, the bridge unclosed and registered and
\* the session active.
C33_Witness ==
  \E c \in Conns :
    /\ bridge[c].upstreamLog = <<"error", "close">>
    /\ bridge[c].xai = "closed"
    /\ conn[c].ws = "open" /\ conn[c].peerManager = c
    /\ Live(c) /\ InTable(c)
    /\ bridge[c].pcState = "connected"
    /\ sessions[conn[c].sessionId].status = "active"

\* Connection c is open and holds an unclosed bridge.
HoldsLiveBridge(c) ==
  /\ conn[c].ws \in {"open", "closing"}
  /\ conn[c].peerManager # Null
  /\ Live(conn[c].peerManager)

\* C34, first half: an entry of the active-bridge table is the unclosed
\* bridge of an open signaling connection for that session id.
C34_EntryIsLiveBridge ==
  \A id \in DOMAIN peerConnections :
    \E c \in Conns :
      /\ HoldsLiveBridge(c)
      /\ conn[c].sessionId = id
      /\ conn[c].peerManager = peerConnections[id]

\* C34: the active-bridge table is consistent with the signaling
\* connections.  Every entry is the unclosed bridge of an open signaling
\* connection for its session id, and every unclosed bridge an open
\* signaling connection holds is the table entry of its session id.
C34_TableConsistent ==
  /\ C34_EntryIsLiveBridge
  /\ \A c \in Conns : HoldsLiveBridge(c) => InTable(conn[c].peerManager)

\* C35: the status of a registered session follows its signaling
\* connections.  While an open signaling connection holds an unclosed
\* bridge for it, its status is active (so not closed), and its status is
\* created exactly as long as no signaling connection has opened for it.
C35_StatusFollowsConnections ==
  \A id \in DOMAIN sessions :
    /\ (\E c \in Conns : conn[c].sessionId = id /\ HoldsLiveBridge(c))
         => sessions[id].status = "active"
    /\ sessions[id].status = "created"
         <=> ~\E c \in Conns : conn[c].sessionId = id /\ conn[c].ws # "pending"

\* C36: a deleted session never reappears.  No step puts a deleted id back
\* into the registry, and what a signaling connection for a deleted id does
\* afterwards (its stats poll, its close) leaves the registry as it is.
C36_DeletedNeverReappears ==
  [][/\ \A id \in observed.deleted : id \notin DOMAIN sessions'
     /\ \A c \in Conns :
          (/\ conn[c].sessionId \in observed.deleted
           /\ \/ conn'[c] # conn[c]
              \/ /\ observed'.call # observed.call
                 /\ observed'.call.method = "getStats"
                 /\ observed'.call.bridge = conn[c].peerManager)
          => sessions' = sessions]_vars

\* The session was deleted under its open connection, whose stats poll then
\* ran on the closed bridge and which then closed; the id is absent.
C36_Witness ==
  \E c \in Conns :
    /\ conn[c].sessionId \in observed.deleted
    /\ conn[c].sessionId \notin DOMAIN sessions
    /\ conn[c].ws = "closed"
    /\ conn[c].onOpen = "done"
    /\ observed.call.bridge = c
    /\ observed.call.method = "getStats"
    /\ observed.call.closed

\* C37: every session in the registry has a supported sample rate, whatever
\* the create request held: no body or no sample_rate, zero, a negative
\* rate, a rate above the highest supported one.
C37_RegisteredRateSupported ==
  \A id \in DOMAIN sessions : Supported(sessions[id].sample_rate)

\* A request for 50000 Hz registered a session at 48000 Hz.
C37_Witness ==
  /\ observed.response.route = "create"
  /\ observed.response.body = [given |-> TRUE, sample_rate |-> 50000]
  /\ observed.response.sid \in DOMAIN sessions
  /\ sessions[observed.response.sid].sample_rate = 48000

Playing == {s \in 1..Len(playback.sources) : playback.sources[s].state = "playing"}

\* C38: at most one playback source is playing at any time, and the sources
\* were started in the order their chunks were queued.
C38_OneSourceInOrder ==
  /\ Cardinality(Playing) <= 1
  /\ \A s, t \in 1..Len(playback.sources) :
       s < t => playback.sources[s].chunk < playback.sources[t].chunk

\* C39: a step never starts a chunk that was queued before the last
\* stopPlayback, and from a stopPlayback to the next playAudio the queue is
\* empty and isPlaying is false.
C39_InterruptionDiscards ==
  /\ [](playback.interrupted
          => playback.playbackQueue = <<>> /\ ~playback.isPlaying)
  /\ [][Len(playback.sources') > Len(playback.sources)
          => playback.sources'[Len(playback.sources')].chunk > playback'.cut]_vars

\* Two chunks were queued, the first playing; playback was stopped, the
\* stopped source's ended event arrived, and the second chunk was never
\* started.
C39_Witness ==
  /\ playback.interrupted
  /\ playback.queued = 2 /\ playback.cut = 2
  /\ Len(playback.sources) = 1
  /\ playback.sources[1] = [chunk |-> 1, state |-> "ended"]

====
